---- MODULE Spec2Model ----
(***************************************************************************)
(* The VGA text-mode console writer of pucci (src/src/vga_buffer.rs).      *)
(*                                                                         *)
(* The state is one Writer (column_position, colour_code and the Buffer it *)
(* borrows), the position of the program (running, or in the panic         *)
(* handler's loop of src/src/main.rs), and a record of the call that was   *)
(* made last: its name, its argument and the events it produced, in order. *)
(***************************************************************************)
EXTENDS Integers, Sequences, FiniteSets

(***************************************************************************)
(* Program constants.                                                      *)
(***************************************************************************)
BUFFER_HEIGHT == 25
BUFFER_WIDTH == 80
\* b'\n'
NEWLINE == 10
\* the glyph write_string substitutes for a byte outside its range
REPLACEMENT == 254
\* the range write_string forwards unchanged: 0x20..=0x73
PRINTABLE_LO == 32
PRINTABLE_HI == 115

(***************************************************************************)
(* Bounds of the model.                                                    *)
(***************************************************************************)
\* calls made on the Writer in one run
MaxCalls == 2
\* characters of a string argument drawn over Chars
MaxLen == 1

Rows == 0 .. (BUFFER_HEIGHT - 1)
Cols == 0 .. (BUFFER_WIDTH - 1)

(***************************************************************************)
(* Colour, ColourCode, ScreenChar.                                         *)
(***************************************************************************)
Colour == 0 .. 15
Black == 0
Red == 4
LightGray == 7
White == 15

\* a << n on a u8: the bits shifted past bit 7 are lost
Shl8(a, n) == (a * (2 ^ n)) % 256

\* a | b, bit by bit
RECURSIVE BitOr(_, _)
BitOr(a, b) ==
    IF a = 0 THEN b
    ELSE IF b = 0 THEN a
    ELSE (IF a % 2 = 1 \/ b % 2 = 1 THEN 1 ELSE 0) + 2 * BitOr(a \div 2, b \div 2)

\* a variant: the two colours change places
ColourCodeNew_Swapped(foreground, background) ==
    BitOr(Shl8(foreground, 4), background)

\* (background as u8) << 4 | (foreground as u8)
ColourCodeNew(foreground, background) ==
    BitOr(Shl8(background, 4), foreground)

ScreenChar(byte, code) == [ascii_character |-> byte, colour_code |-> code]

(***************************************************************************)
(* Strings.  A &str is a sequence of characters (code points), stored as   *)
(* its UTF-8 encoding; s.bytes() iterates over the bytes of the encoding.  *)
(***************************************************************************)
\* a variant: one byte for each character, its code cut to eight bits
Utf8_PerChar(cp) == <<cp % 256>>

Utf8(cp) ==
    IF cp < 128 THEN <<cp>>
    ELSE IF cp < 2048 THEN <<192 + (cp \div 64), 128 + (cp % 64)>>
    ELSE IF cp < 65536
         THEN <<224 + (cp \div 4096), 128 + ((cp \div 64) % 64), 128 + (cp % 64)>>
         ELSE <<240 + (cp \div 262144), 128 + ((cp \div 4096) % 64),
                128 + ((cp \div 64) % 64), 128 + (cp % 64)>>

RECURSIVE StrBytes(_)
StrBytes(s) == IF s = <<>> THEN <<>> ELSE Utf8(Head(s)) \o StrBytes(Tail(s))

(***************************************************************************)
(* Events a call produces, in the order the code produces them.            *)
(***************************************************************************)
Event(ev, row, col, byte) == [ev |-> ev, row |-> row, col |-> col, byte |-> byte]
EvNewLine(w) == Event("new_line", BUFFER_HEIGHT - 1, w.column_position, 0)
EvWriteByte(w, byte) == Event("write_byte", BUFFER_HEIGHT - 1, w.column_position, byte)
EvStore(row, col, byte) == Event("store", row, col, byte)
EvIndexPanic(row, col, byte) == Event("index_out_of_bounds", row, col, byte)

Log(w, e) == [w EXCEPT !.trace = Append(@, e)]

(***************************************************************************)
(* Writer::new_line: the body is empty.                                    *)
(***************************************************************************)
\* a variant: the line is cleared to a default colour, which stays active
new_line_ResetColour(w) ==
    [Log(w, EvNewLine(w)) EXCEPT !.colour_code = ColourCodeNew(LightGray, Black)]

\* a variant: the column is reset, as a line feed would
new_line_ResetColumn(w) == [Log(w, EvNewLine(w)) EXCEPT !.column_position = 0]

new_line(w) == Log(w, EvNewLine(w))

(***************************************************************************)
(* self.buffer.chars[row][col].write(...): the index is bounds-checked,    *)
(* and an index out of bounds panics; the panic handler never returns.     *)
(***************************************************************************)
\* a variant: the cell gets the default colour, not the writer's
chars_write_DefaultColour(w, row, col, byte) ==
    IF row < BUFFER_HEIGHT /\ col < BUFFER_WIDTH
    THEN [Log(w, EvStore(row, col, byte))
             EXCEPT !.buffer[row][col] =
                        ScreenChar(byte, ColourCodeNew(LightGray, Black))]
    ELSE [Log(w, EvIndexPanic(row, col, byte)) EXCEPT !.pc = "panic"]

\* a variant: the index is not checked; a write past the row is not stopped
chars_write_Unchecked(w, row, col, byte) ==
    IF row < BUFFER_HEIGHT /\ col < BUFFER_WIDTH
    THEN [Log(w, EvStore(row, col, byte))
             EXCEPT !.buffer[row][col] = ScreenChar(byte, w.colour_code)]
    ELSE Log(w, EvStore(row, col, byte))

\* a variant: the column wraps around within the row
chars_write_Wrapping(w, row, col, byte) ==
    [Log(w, EvStore(row, col % BUFFER_WIDTH, byte))
        EXCEPT !.buffer[row][col % BUFFER_WIDTH] = ScreenChar(byte, w.colour_code)]

chars_write(w, row, col, byte) ==
    IF row < BUFFER_HEIGHT /\ col < BUFFER_WIDTH
    THEN [Log(w, EvStore(row, col, byte))
             EXCEPT !.buffer[row][col] = ScreenChar(byte, w.colour_code)]
    ELSE [Log(w, EvIndexPanic(row, col, byte)) EXCEPT !.pc = "panic"]

(***************************************************************************)
(* Writer::write_byte.                                                     *)
(***************************************************************************)
\* a variant: the arm matches the carriage return instead
IsNewline_CarriageReturn(byte) == byte = 13

\* the arm b'\n' of the match
IsNewline(byte) == byte = NEWLINE

\* a variant: the line counts as full one column early
LineFull_OneEarly(w) == w.column_position >= BUFFER_WIDTH - 1

\* if self.column_position >= BUFFER_WIDTH
LineFull(w) == w.column_position >= BUFFER_WIDTH

write_byte(w0, byte) ==
    LET w == Log(w0, EvWriteByte(w0, byte))
    IN  IF IsNewline(byte)
        THEN new_line(w)
        ELSE LET w1 == IF LineFull(w) THEN new_line(w) ELSE w
                 row == BUFFER_HEIGHT - 1
                 col == w1.column_position
                 w2 == chars_write(w1, row, col, byte)
             IN  IF w2.pc = "panic"
                 THEN w2
                 ELSE [w2 EXCEPT !.column_position = @ + 1]

(***************************************************************************)
(* Writer::write_string: the match on one byte, and the loop.              *)
(***************************************************************************)
\* a variant: the upper end of the range is excluded
Glyph_ExclusiveEnd(byte) ==
    IF (PRINTABLE_LO <= byte /\ byte < PRINTABLE_HI) \/ byte = NEWLINE
    THEN byte
    ELSE REPLACEMENT

\* a variant: the whole of printable ASCII, 0x20..=0x7e, is forwarded
Glyph_FullAscii(byte) ==
    IF (PRINTABLE_LO <= byte /\ byte <= 126) \/ byte = NEWLINE
    THEN byte
    ELSE REPLACEMENT

Glyph(byte) ==
    IF (PRINTABLE_LO <= byte /\ byte <= PRINTABLE_HI) \/ byte = NEWLINE
    THEN byte
    ELSE REPLACEMENT

RECURSIVE write_bytes(_, _)
write_bytes(w, bs) ==
    IF bs = <<>> \/ w.pc = "panic"
    THEN w
    ELSE write_bytes(write_byte(w, Glyph(Head(bs))), Tail(bs))

write_string(w, s) == write_bytes(w, StrBytes(s))

(***************************************************************************)
(* impl fmt::Write for Writer: write_str.                                  *)
(***************************************************************************)
\* a variant: the bytes go to write_byte as they are
RECURSIVE write_raw(_, _)
write_raw(w, bs) ==
    IF bs = <<>> \/ w.pc = "panic"
    THEN w
    ELSE write_raw(write_byte(w, Head(bs)), Tail(bs))

write_str_Unfiltered(w, s) ==
    LET w1 == write_raw(w, StrBytes(s))
    IN  IF w1.pc = "panic" THEN w1 ELSE [w1 EXCEPT !.result = "Ok"]

write_str(w, s) ==
    LET w1 == write_string(w, s)
    IN  IF w1.pc = "panic" THEN w1 ELSE [w1 EXCEPT !.result = "Ok"]

(***************************************************************************)
(* Inputs.                                                                 *)
(***************************************************************************)
\* bytes handed to write_byte: newline, 'H', DEL
ByteInputs == {NEWLINE, 72, 127}

\* characters of short strings: newline, 'A', o-umlaut (two bytes in UTF-8)
Chars == {NEWLINE, 65, 246}

\* characters at the edges of the ranges of write_string's match, and the
\* euro sign (three bytes in UTF-8)
EdgeChars == {9, 11, 31, 32, 115, 116, 127, 8364}

RECURSIVE StringsOfLen(_)
StringsOfLen(n) ==
    IF n = 0 THEN {<<>>}
    ELSE {<<c>> \o s : c \in Chars, s \in StringsOfLen(n - 1)}

\* n times 'B'
Fill(n) == [i \in 1 .. n |-> 66]

StringInputs ==
    UNION {StringsOfLen(n) : n \in 0 .. MaxLen}
    \cup {<<c>> : c \in EdgeChars}
    \cup {<<65, 66>>}
    \cup {Fill(n) : n \in {BUFFER_WIDTH - 1, BUFFER_WIDTH, BUFFER_WIDTH + 1}}

(***************************************************************************)
(* The surface before the first write: device memory, of any content.      *)
(***************************************************************************)
BlankSurface == [r \in Rows |-> [c \in Cols |-> ScreenChar(32, ColourCodeNew(LightGray, Black))]]
TaggedSurface ==
    [r \in Rows |-> [c \in Cols |->
        ScreenChar(48 + ((r + c) % 10), ColourCodeNew(LightGray, Black))]]
InitSurfaces == {BlankSurface, TaggedSurface}

InitColours == {ColourCodeNew(Red, White), ColourCodeNew(LightGray, Black)}

(***************************************************************************)
(* State.                                                                  *)
(***************************************************************************)
VARIABLES column_position, colour_code, buffer, pc, call, trace, result, ncalls,
          live, todo

vars == <<column_position, colour_code, buffer, pc, call, trace, result, ncalls,
          live, todo>>

\* a variant: the handler builds a Writer to print the panic message
PanicLive_Prints(n) == n + 1

\* the panic handler of main.rs: loop {}; it builds no Writer of its own, and
\* nothing is unwound, so the Writers that are live stay live
PanicLive(n) == n

\* the Writer as the operators above take it, with an empty record of events
Self ==
    [column_position |-> column_position, colour_code |-> colour_code,
     buffer |-> buffer, pc |-> pc, trace |-> <<>>, result |-> "none"]

\* the call returns (or ends in the panic handler) and the caller goes on
\* with the statements in rest
CommitTo(w, op, arg, rest) ==
    /\ column_position' = w.column_position
    /\ colour_code' = w.colour_code
    /\ buffer' = w.buffer
    /\ pc' = w.pc
    /\ trace' = w.trace
    /\ result' = w.result
    /\ call' = [op |-> op, arg |-> arg]
    /\ live' = IF w.pc = "panic" THEN PanicLive(live) ELSE live
    /\ todo' = rest

\* a call made from outside on the Writer
Commit(w, op, arg) == CommitTo(w, op, arg, todo) /\ ncalls' = ncalls + 1

Init ==
    /\ column_position = 0
    /\ colour_code \in InitColours
    /\ buffer \in InitSurfaces
    /\ pc = "running"
    /\ call = [op |-> "none", arg |-> <<>>]
    /\ trace = <<>>
    /\ result = "none"
    /\ ncalls = 0
    /\ live = 1
    /\ todo = <<>>

Callable == pc = "running" /\ ncalls < MaxCalls

NewLine ==
    /\ Callable
    /\ Commit(new_line(Self), "new_line", <<>>)

WriteByte ==
    /\ Callable
    /\ \E byte \in ByteInputs : Commit(write_byte(Self, byte), "write_byte", <<byte>>)

WriteString ==
    /\ Callable
    /\ \E s \in StringInputs : Commit(write_string(Self, s), "write_string", s)

WriteStr ==
    /\ Callable
    /\ \E s \in StringInputs : Commit(write_str(Self, s), "write_str", s)

Next == NewLine \/ WriteByte \/ WriteString \/ WriteStr

Spec == Init /\ [][Next]_vars

(***************************************************************************)
(* The program: _start calls print_someshit, which builds the Writer,      *)
(* makes its three writes and returns; _start then loops for ever.         *)
(***************************************************************************)
\* before the Writer is built: the surface is there, the Writer is not
InitUnbuilt ==
    /\ column_position = 0
    /\ colour_code = 0
    /\ buffer \in InitSurfaces
    /\ pc = "start"
    /\ call = [op |-> "none", arg |-> <<>>]
    /\ trace = <<>>
    /\ result = "none"
    /\ ncalls = 0
    /\ live = 0

\* Writer { column_position: 0, colour_code: ColourCode::new(fg, bg), buffer }
Construct(foreground, background) ==
    /\ pc = "start"
    /\ column_position' = 0
    /\ colour_code' = ColourCodeNew(foreground, background)
    /\ live' = live + 1
    /\ pc' = "running"
    /\ call' = [op |-> "new", arg |-> <<foreground, background>>]
    /\ trace' = <<>>
    /\ UNCHANGED <<buffer, result, ncalls, todo>>

\* "ello "
DemoString == <<101, 108, 108, 111, 32>>

\* The format string "World!\nNice numbers in my opinion are {} and {}." in
\* its literal pieces, and its arguments 42.00000000000001 and 789.0/123.0
\* as f64's Display renders them
DemoLiteral1 ==
    <<87, 111, 114, 108, 100, 33, 10,
      78, 105, 99, 101, 32, 110, 117, 109, 98, 101, 114, 115, 32,
      105, 110, 32, 109, 121, 32, 111, 112, 105, 110, 105, 111, 110, 32,
      97, 114, 101, 32>>
\* "42.00000000000001"
DemoNumber1 ==
    <<52, 50, 46, 48, 48, 48, 48, 48, 48, 48, 48, 48, 48, 48, 48, 48, 49>>
\* " and "
DemoLiteral2 == <<32, 97, 110, 100, 32>>
\* "6.414634146341464"
DemoNumber2 ==
    <<54, 46, 52, 49, 52, 54, 51, 52, 49, 52, 54, 51, 52, 49, 52, 54, 52>>
\* "."
DemoLiteral3 == <<46>>

Stmt(op, arg) == [op |-> op, arg |-> arg]

\* the statements of print_someshit after the Writer is built; write! hands
\* each literal piece to write_str in one call and lets each argument
\* format itself
DemoProgram ==
    <<Stmt("write_byte", <<72>>),
      Stmt("write_string", DemoString),
      Stmt("write_str", DemoLiteral1),
      Stmt("display", DemoNumber1),
      Stmt("write_str", DemoLiteral2),
      Stmt("display", DemoNumber2),
      Stmt("write_str", DemoLiteral3),
      Stmt("return", <<>>)>>

\* .expect(..): a result other than Ok panics
Expect(w) ==
    IF w.pc = "running" /\ w.result # "Ok" THEN [w EXCEPT !.pc = "panic"] ELSE w

InitDemo == InitUnbuilt /\ todo = DemoProgram

\* _start calls print_someshit, which builds its Writer
DemoStart == Construct(Red, White)

\* the next statement of print_someshit.  An argument's Display calls
\* write_str once for each piece of its text; where it cuts the pieces is
\* its own affair, so every cut is taken
DemoStep ==
    /\ pc = "running"
    /\ todo # <<>>
    /\ LET st == Head(todo)
       IN  IF st.op = "write_byte"
           THEN /\ CommitTo(write_byte(Self, st.arg[1]), "write_byte", st.arg, Tail(todo))
                /\ UNCHANGED ncalls
           ELSE IF st.op = "write_string"
           THEN /\ CommitTo(write_string(Self, st.arg), "write_string", st.arg, Tail(todo))
                /\ UNCHANGED ncalls
           ELSE IF st.op = "write_str"
           THEN /\ CommitTo(Expect(write_str(Self, st.arg)), "write_str", st.arg, Tail(todo))
                /\ UNCHANGED ncalls
           ELSE IF st.op = "display"
           THEN /\ \E n \in 1 .. Len(st.arg) :
                     LET piece == SubSeq(st.arg, 1, n)
                         rest == SubSeq(st.arg, n + 1, Len(st.arg))
                     IN  CommitTo(Expect(write_str(Self, piece)), "write_str", piece,
                                  IF rest = <<>>
                                  THEN Tail(todo)
                                  ELSE <<Stmt("display", rest)>> \o Tail(todo))
                /\ UNCHANGED ncalls
           ELSE \* return: the Writer is dropped, and _start enters its loop {}
                /\ pc' = "idle"
                /\ live' = live - 1
                /\ todo' = Tail(todo)
                /\ call' = Stmt("return", <<>>)
                /\ trace' = <<>>
                /\ UNCHANGED <<column_position, colour_code, buffer, result, ncalls>>

NextDemo == DemoStart \/ DemoStep

SpecDemo == InitDemo /\ [][NextDemo]_vars

(***************************************************************************)
(* A Writer of any two colours, and the bytes written with it.             *)
(***************************************************************************)
InitColour == InitUnbuilt /\ todo = <<>>

AnyWriter == \E foreground \in Colour, background \in Colour :
                Construct(foreground, background)

NextColour == AnyWriter \/ WriteByte

SpecColour == InitColour /\ [][NextColour]_vars

(***************************************************************************)
(* What the last call did, read from its events.                           *)
(***************************************************************************)
LastRow == BUFFER_HEIGHT - 1

EventsOf(ev) == SelectSeq(trace, LAMBDA e : e.ev = ev)
NewLineCount == Len(EventsOf("new_line"))
StoreCount == Len(EventsOf("store"))

\* the column the last call started from: every call that produces an event
\* starts with one that carries it, and a call without events moves nothing
PreCol == IF trace = <<>> THEN column_position ELSE trace[1].col

IsStringCall == call.op \in {"write_string", "write_str"}
IsPlainByteCall ==
    call.op = "write_byte" /\ call.arg # <<NEWLINE>>

\* a character write_string stores as itself
Printable(c) == 32 <= c /\ c <= 115

(***************************************************************************)
(* C1 (wrap before overflow): when write_byte receives a character other   *)
(* than newline at column WIDTH (the line is full), exactly one new_line() *)
(* is invoked, it comes before the store, and the character is stored at   *)
(* column 0 of the bottom row.                                             *)
(***************************************************************************)
C1_WrapBeforeOverflow ==
    \A i \in DOMAIN trace :
        (trace[i].ev = "write_byte" /\ trace[i].byte # NEWLINE
            /\ trace[i].col = BUFFER_WIDTH)
        => /\ i + 2 \in DOMAIN trace
           /\ trace[i + 1].ev = "new_line"
           /\ trace[i + 2] = EvStore(LastRow, 0, trace[i].byte)

(***************************************************************************)
(* C2 (bounds safety): every write into the surface that a call attempts   *)
(* targets a row below HEIGHT and a column below WIDTH.                    *)
(***************************************************************************)
C2_WritesInRange ==
    \A i \in DOMAIN trace :
        trace[i].ev \in {"store", "index_out_of_bounds"}
        => /\ 0 <= trace[i].row /\ trace[i].row < BUFFER_HEIGHT
           /\ 0 <= trace[i].col /\ trace[i].col < BUFFER_WIDTH

(***************************************************************************)
(* C3 (scroll shift): a call that invokes new_line() once leaves in every  *)
(* row r of 0 .. HEIGHT-2 what row r+1 held before the call.               *)
(***************************************************************************)
C3_ScrollShift ==
    [][NewLineCount' = 1
        => \A r \in 0 .. (BUFFER_HEIGHT - 2) : buffer'[r] = buffer[r + 1]]_vars

(***************************************************************************)
(* C4 (column reset): after new_line(), called directly or through         *)
(* write_byte(newline), column_position is 0.                              *)
(***************************************************************************)
C4_ColumnReset ==
    (call.op = "new_line" \/ (call.op = "write_byte" /\ call.arg = <<NEWLINE>>))
    => column_position = 0

(***************************************************************************)
(* C5 (bottom-row clear): after new_line() every cell of the bottom row    *)
(* holds a space, in the writer's colour or in one default colour.         *)
(***************************************************************************)
C5_BottomRowClear ==
    call.op = "new_line"
    => \E code \in 0 .. 255 :
          \A c \in Cols : buffer[LastRow][c] = ScreenChar(32, code)

(***************************************************************************)
(* C6 (filling a line does not scroll): a string of at most WIDTH          *)
(* printable characters written from column 0 is stored in order from      *)
(* column 0 of the bottom row, new_line() is not invoked and the call      *)
(* returns; with exactly WIDTH characters the columns 0 .. WIDTH-1 are     *)
(* filled.                                                                 *)
(***************************************************************************)
C6_FillDoesNotScroll ==
    (/\ IsStringCall
     /\ PreCol = 0
     /\ Len(call.arg) <= BUFFER_WIDTH
     /\ \A i \in DOMAIN call.arg : Printable(call.arg[i]))
    => /\ NewLineCount = 0
       /\ pc = "running"
       /\ column_position = Len(call.arg)
       /\ \A i \in DOMAIN call.arg :
             buffer[LastRow][i - 1] = ScreenChar(call.arg[i], colour_code)

C6_Witness ==
    /\ IsStringCall
    /\ PreCol = 0
    /\ call.arg = Fill(BUFFER_WIDTH)
    /\ column_position = BUFFER_WIDTH
    /\ buffer[LastRow][BUFFER_WIDTH - 1].ascii_character = 66

C8_OneCallPerCharacter ==
    (IsStringCall /\ pc = "running")
    => Len(EventsOf("write_byte")) = Len(call.arg)

\* the length of the encoding of one character
EncodedLen(cp) ==
    IF cp < 128 THEN 1 ELSE IF cp < 2048 THEN 2 ELSE IF cp < 65536 THEN 3 ELSE 4

RECURSIVE EncodedLenOf(_)
EncodedLenOf(s) ==
    IF s = <<>> THEN 0 ELSE EncodedLen(Head(s)) + EncodedLenOf(Tail(s))

Min(a, b) == IF a <= b THEN a ELSE b

(***************************************************************************)
(* C8, amended (substitution per byte of the encoding): a string call      *)
(* makes one write_byte call for each byte of the encoding of its input,   *)
(* up to a call that panics.  A single non-ASCII character whose encoding  *)
(* has n bytes, written at column c, produces min(n, WIDTH - c) cells with *)
(* code 0xFE from column c on, and advances column_position by as many.    *)
(***************************************************************************)
C8_OneCallPerByte ==
    IsStringCall
    => LET n == EncodedLenOf(call.arg)
           k == Min(n, BUFFER_WIDTH - PreCol)
       IN  /\ pc = "running" => Len(EventsOf("write_byte")) = n
           /\ pc = "panic" => Len(EventsOf("write_byte")) <= n
           /\ (Len(call.arg) = 1 /\ call.arg[1] >= 128)
              => /\ StoreCount = k
                 /\ column_position = PreCol + k
                 /\ \A j \in 0 .. (k - 1) :
                       buffer[LastRow][PreCol + j] = ScreenChar(254, colour_code)

C8_Witness ==
    /\ IsStringCall
    /\ Len(call.arg) = 1
    /\ call.arg[1] >= 128
    /\ pc = "running"
    /\ StoreCount = EncodedLen(call.arg[1])
    /\ column_position = PreCol + StoreCount

(***************************************************************************)
(* C9 (positioned write and frame): write_byte(b), b not newline, at a     *)
(* column c below WIDTH stores (b, active colour) at (HEIGHT-1, c), sets   *)
(* column_position to c+1 and changes no other cell; write_string("AB")    *)
(* from column 0 changes only columns 0 and 1 of the bottom row, to 0x41   *)
(* and 0x42.                                                               *)
(***************************************************************************)
C9_PositionedWrite ==
    [][/\ (IsPlainByteCall' /\ column_position < BUFFER_WIDTH)
          => /\ buffer' = [buffer EXCEPT ![LastRow][column_position] =
                              ScreenChar(call'.arg[1], colour_code)]
             /\ column_position' = column_position + 1
             /\ pc' = "running"
       /\ (call'.op = "write_string" /\ call'.arg = <<65, 66>>
              /\ column_position = 0)
          => buffer' = [buffer EXCEPT
                           ![LastRow][0] = ScreenChar(65, colour_code),
                           ![LastRow][1] = ScreenChar(66, colour_code)]
      ]_vars

C9_Witness ==
    /\ IsPlainByteCall
    /\ PreCol > 0
    /\ column_position = PreCol + 1
    /\ buffer[LastRow][PreCol] = ScreenChar(call.arg[1], colour_code)

(***************************************************************************)
(* C10 (newline byte): write_byte(0x0A) invokes new_line() exactly once,   *)
(* stores no cell, and leaves column_position no greater than it was.      *)
(***************************************************************************)
C10_NewlineByte ==
    (call.op = "write_byte" /\ call.arg = <<NEWLINE>>)
    => /\ NewLineCount = 1
       /\ StoreCount = 0
       /\ pc = "running"
       /\ column_position <= PreCol

C10_Witness ==
    /\ call.op = "write_byte"
    /\ call.arg = <<NEWLINE>>
    /\ PreCol > 0
    /\ NewLineCount = 1

C12_ColourStable ==
    [][/\ colour_code' = colour_code
       /\ \A c \in 0 .. (column_position' - 1) :
             buffer'[LastRow][c].colour_code = colour_code
      ]_vars

\* a string write that stored cells after an earlier call stored some
C12_Witness ==
    /\ IsStringCall
    /\ ncalls = 2
    /\ StoreCount > 0
    /\ PreCol > 0
    /\ \A c \in 0 .. (column_position - 1) :
          buffer[LastRow][c].colour_code = colour_code
    /\ colour_code = ColourCodeNew(Red, White)

(***************************************************************************)
(* C13 (formatted-output primitive): write_str(s) leaves the surface, the  *)
(* column and the program where write_string(s) leaves them from the same  *)
(* state; its result is never an error, and is Ok whenever it returns.     *)
(***************************************************************************)
C13_WriteStrAsWriteString ==
    [][call'.op = "write_str"
        => /\ [column_position |-> column_position', colour_code |-> colour_code',
                buffer |-> buffer', pc |-> pc', trace |-> trace', result |-> "none"]
                  = write_string(Self, call'.arg)
           /\ result' # "Err"
           /\ pc' = "running" => result' = "Ok"
      ]_vars

\* a write_str call that replaced a character and returned
C13_Witness ==
    /\ call.op = "write_str"
    /\ result = "Ok"
    /\ call.arg = <<127>>
    /\ buffer[LastRow][PreCol].ascii_character = 254
    /\ column_position = PreCol + 1

(***************************************************************************)
(* C15, as claimed (column state): between calls column_position is at    *)
(* least 0 and below WIDTH.                                                *)
(***************************************************************************)
C15_ColumnBelowWidth ==
    pc = "running" => (0 <= column_position /\ column_position < BUFFER_WIDTH)

(***************************************************************************)
(* C15, amended: column_position is at least 0 and at most WIDTH; it is    *)
(* WIDTH after the last column of the row was written.                     *)
(***************************************************************************)
C15_ColumnAtMostWidth ==
    0 <= column_position /\ column_position <= BUFFER_WIDTH

C15_Witness ==
    /\ pc = "running"
    /\ column_position = BUFFER_WIDTH
    /\ StoreCount > 0
    /\ trace[Len(trace)] = EvStore(LastRow, BUFFER_WIDTH - 1, 66)

(***************************************************************************)
(* C16 (run to completion): every write_byte and write_string call         *)
(* returns; none ends in the panic handler's loop.                         *)
(***************************************************************************)
C16_RunToCompletion ==
    call.op \in {"write_byte", "write_string"} => pc = "running"

\* a write_byte call of a character other than newline with the row full
FullRowWrites ==
    {i \in DOMAIN trace :
        /\ trace[i].ev = "write_byte"
        /\ trace[i].byte # NEWLINE
        /\ trace[i].col = BUFFER_WIDTH}

(***************************************************************************)
(* C17, as claimed (effect of the stub): a character other than newline    *)
(* written when the bottom row is full is stored into a cell of the bottom *)
(* row, and execution goes on without a fault.                             *)
(***************************************************************************)
C17_SilentOverwrite ==
    \A i \in FullRowWrites :
        /\ pc = "running"
        /\ \E j \in DOMAIN trace :
              j > i /\ trace[j].ev = "store" /\ trace[j].row = LastRow

(***************************************************************************)
(* C17, amended: a character other than newline written when the bottom   *)
(* row is full is not stored: new_line() does nothing, the index           *)
(* chars[HEIGHT-1][WIDTH] is out of bounds, and the call ends in the panic *)
(* handler's loop with column_position still WIDTH.                        *)
(***************************************************************************)
C17_PanicWhenFull ==
    \A i \in FullRowWrites :
        /\ pc = "panic"
        /\ Len(trace) = i + 2
        /\ trace[i + 1].ev = "new_line"
        /\ trace[i + 2] = EvIndexPanic(LastRow, BUFFER_WIDTH, trace[i].byte)
        /\ column_position = BUFFER_WIDTH

\* the row was filled by an earlier call, and this call wrote one more
C17_Witness ==
    /\ FullRowWrites = {1}
    /\ ncalls = 2
    /\ pc = "panic"
    /\ \A c \in Cols : buffer[LastRow][c].ascii_character = 66

\* the bytes other than newline the last call handed to write_byte
PlainBytesWritten ==
    Len(SelectSeq(trace, LAMBDA e : e.ev = "write_byte" /\ e.byte # NEWLINE))

(***************************************************************************)
(* C19 (the column counts the bytes): no call lowers column_position, and  *)
(* a call that returns raises it by the number of bytes other than newline *)
(* it handed to write_byte; from column 0 at construction, column_position *)
(* is the number of such bytes since construction.                         *)
(***************************************************************************)
C19_ColumnCountsBytes ==
    [][/\ column_position' >= column_position
       /\ pc' = "running"
          => column_position' = column_position + PlainBytesWritten'
      ]_vars

\* a newline written at a column above 0 left the column where it was
C19_Witness ==
    /\ call.op = "write_string"
    /\ call.arg = <<NEWLINE>>
    /\ PreCol > 0
    /\ NewLineCount = 1
    /\ column_position = PreCol

(***************************************************************************)
(* C14 (colour encoding): for each of the 16 x 16 pairs of colours,        *)
(* ColourCode::new(fg, bg) is a byte whose low four bits are fg's code and *)
(* whose high four bits are bg's code.                                     *)
(***************************************************************************)
C14_ColourEncoding ==
    call.op = "new"
    => /\ colour_code \in 0 .. 255
       /\ colour_code % 16 = call.arg[1]
       /\ colour_code \div 16 = call.arg[2]

\* the pair with every bit set in the background and none in the foreground
C14_Witness ==
    /\ call.op = "new"
    /\ call.arg = <<Black, White>>
    /\ colour_code = 240

(***************************************************************************)
(* C18 (single owner): at every moment of the run from _start at most one  *)
(* Writer is live.                                                         *)
(***************************************************************************)
C18_SingleOwner == live <= 1

\* the Writer of print_someshit is live while the panic handler loops
C18_Witness ==
    /\ live = 1
    /\ pc = "panic"
    /\ call.op = "write_str"

(***************************************************************************)
(* C20 (the demo run completes): print_someshit makes every store in       *)
(* range, no call ends in the panic handler, and once its statements are   *)
(* done _start is in its idle loop.                                        *)
(***************************************************************************)
C20_DemoCompletes ==
    /\ pc \in {"start", "running", "idle"}
    /\ \A i \in DOMAIN trace : trace[i].ev # "index_out_of_bounds"
    /\ (pc # "start" /\ todo = <<>>) => pc = "idle"

====
